---- MODULE Spec2Model ----
(***************************************************************************)
(* Model of deplumi's artifact build pipeline:                             *)
(*   - build_zip_package / PipenvPackage.warmup / PipenvPackage.build as   *)
(*     asyncio tasks that interleave at their await points (Spec), under   *)
(*     a fair event loop (SpecFair) and on a host where lock files are     *)
(*     rewritten meanwhile (SpecRelock);                                   *)
(*   - get_lambda_bucket as called by Package.set_up (SpecBucket),         *)
(*     PipenvPackage._call_subprocess (SpecRunner) and the environment of  *)
(*     PipenvPackage._call_pipenv (SpecEnv);                               *)
(*   - PipenvPackage._build_zip and mkzinfo as functions over file trees   *)
(*     (SpecBundle), _filter and _get_root over relative paths             *)
(*     (SpecFilter);                                                       *)
(*   - the generated accessor module's __getattr__ under                   *)
(*     functools.lru_cache() (SpecAccessor).                               *)
(***************************************************************************)
EXTENDS Integers, Sequences, FiniteSets, TLC

VARIABLES
    \* ---- file system and environment shared by all builds
    lockfile,    \* source root -> bytes of its Pipfile.lock
    dirs,        \* directories that exist under /tmp (build root, build dirs)
    populated,   \* build dir path -> "empty" | "partial" | "complete"
    zipWriters,  \* archive path -> builds that hold it open for writing
    zipFiles,    \* archive path -> content of the last closed archive
    resolved,    \* resource handles whose output attributes have resolved
    \* ---- one asyncio task per build_zip_package call
    pc,          \* position of the task
    sourcedir,   \* argument sourcedir
    resources,   \* ResourceGenerator.resources, an ordered name -> handle map
    builddir,    \* local builddir of warmup
    out,         \* stdout of the resolver as captured by warmup
    installArgs, \* arguments the installer was spawned with
    exitcode,    \* return codes observed by this task, in order
    ziproot,     \* local ziproot (= builddir) of build
    bdest,       \* local dest of build
    ri,          \* loop index of ResourceGenerator.build
    contents,    \* ITEM records emitted so far by ResourceGenerator.build
    result,      \* value returned by build_zip_package ("" until then)
    err,         \* exception that ended the task ("" if none)
    log,         \* history: externally visible steps of the task, in order
    prior,       \* history: builds whose warmup had returned when this began
    priorFailed, \* history: builds whose warmup had failed when this began
    \* ---- bundler runs (SpecBundle)
    zfilter, ztrees, zvirtuals, zwalks, zmtime, zarchive, zdecisions,
    \* ---- accessor module (SpecAccessor)
    lruCache, thunkRuns, nextObj, lastLookup,
    \* ---- shared lambda bucket registry (SpecBucket)
    _lambda_buckets, \* module dict: region -> bucket resource
    bucketsDeclared, \* s3.Bucket resources declared so far, in order
    setups,          \* Package.set_up calls: what get_lambda_bucket returned
    \* ---- process runner (SpecRunner)
    procs,           \* child processes spawned so far, in order
    calls,           \* _call_subprocess calls: arguments, position, outcome
    \* ---- resolver environment (SpecEnv)
    environ,         \* os.environ of the deployment process
    pipenvCalls      \* _call_pipenv calls: the env handed to _call_subprocess

buildVars == <<lockfile, dirs, populated, zipWriters, zipFiles, resolved, pc,
               sourcedir, resources, builddir, out, installArgs, exitcode,
               ziproot, bdest, ri,
               contents, result, err, log, prior, priorFailed>>
bundleVars == <<zfilter, ztrees, zvirtuals, zwalks, zmtime, zarchive,
                zdecisions>>
accessorVars == <<lruCache, thunkRuns, nextObj, lastLookup>>
bucketVars == <<_lambda_buckets, bucketsDeclared, setups>>
runnerVars == <<procs, calls>>
envVars == <<environ, pipenvCalls>>
extraVars == <<bucketVars, runnerVars, envVars>>
vars == <<buildVars, bundleVars, accessorVars, extraVars>>

-----------------------------------------------------------------------------
(* Bounds and input universes                                              *)

NumBuilds == 2
Builds == 1..NumBuilds

\* Source roots on disk.  /srv/a and /srv/b are different packages whose
\* Pipfile.lock have identical bytes; /srv/c has other lock bytes; /srv/d has
\* no Pipfile.
SourceDirs == {"/srv/a", "/srv/b", "/srv/c", "/srv/d"}

HasPipfile(d) == d # "/srv/d"

LockBytes == {"lockA", "lockC"}

InitialLockfile(d) == IF d = "/srv/c" THEN "lockC" ELSE "lockA"

\* hashlib.sha3_256(contents).hexdigest(): an injective table on the lock
\* bytes of the model.
Sha3Hex(bytes) ==
    IF bytes = "lockA" THEN "5f1a" ELSE "c07e"

ExitCodes == {0, 1}

\* What 'pipenv lock --requirements' prints for a lock file: the flattened
\* requirement list of that lock file.
Requirements(bytes) == "reqs-of-" \o bytes

\* Live resource handles: their concrete type and the value of attribute
\* 'bucket' once provisioning has resolved it.
Handles == {"assets", "jobs"}

get_fqn(h) ==
    IF h = "assets" THEN "pulumi_aws.s3.bucket.Bucket"
                    ELSE "pulumi_aws.sqs.queue.Queue"

BUILDERS ==
    [fqn \in {"pulumi_aws.s3.bucket.Bucket"} |->
        [attrs |-> <<"bucket">>, expr |-> "boto3.resource('s3').Bucket(bucket)"]]

AttrValue(h, attr) == h \o "-" \o attr \o "-id"

\* The Package(sourcedir=..., resources=...) declarations a deployment may
\* make: build_zip_package is called with one of them.
Packages ==
    { [sourcedir |-> "/srv/a", resources |-> <<[name |-> "store", res |-> "assets"]>>],
      [sourcedir |-> "/srv/b", resources |-> <<>>],
      [sourcedir |-> "/srv/c", resources |-> <<>>],
      [sourcedir |-> "/srv/c", resources |-> <<[name |-> "queue", res |-> "jobs"]>>],
      [sourcedir |-> "/srv/b", resources |-> <<[name |-> "store", res |-> "assets"],
                                                [name |-> "queue", res |-> "jobs"]>>],
      [sourcedir |-> "/srv/d", resources |-> <<>>] }

BuildRoot == "/tmp/deplumi"

\* Mutant of get_builddir: the directory is named after the source root
\* instead of the digest of the lock bytes.
get_builddir_by_root(d) == BuildRoot \o "/" \o d

\* PipenvPackage.get_builddir: the path it returns for a package rooted at d
get_builddir(d) == BuildRoot \o "/" \o Sha3Hex(lockfile[d])

BuildDirs == {BuildRoot \o "/" \o Sha3Hex(bytes) : bytes \in LockBytes}
ZipPaths == {p \o ".zip" : p \in BuildDirs}

Append1(f, b, e) == [f EXCEPT ![b] = Append(@, e)]

Logged(b, e) == \E i \in 1..Len(log[b]) : log[b][i] = e

\* The warmup of task b created the build directory and then raised.
WarmupFailed(b) ==
    /\ pc[b] = "failed"
    /\ Logged(b, "mkdir")
    /\ ~Logged(b, "warmup_returned")

-----------------------------------------------------------------------------
(* Spec: concurrent build_zip_package tasks                                *)

InitBundleIdle ==
    /\ zfilter = "off"
    /\ ztrees = <<>>
    /\ zvirtuals = <<>>
    /\ zwalks = <<>>
    /\ zmtime = <<>>
    /\ zarchive = <<>>
    /\ zdecisions = <<>>

InitAccessorIdle ==
    /\ lruCache = <<>>
    /\ thunkRuns = <<>>
    /\ nextObj = 0
    /\ lastLookup = [name |-> "", outcome |-> "off", obj |-> 0]

InitBuild ==
    /\ lockfile = [d \in SourceDirs |-> InitialLockfile(d)]
    /\ dirs = {}
    /\ populated = [p \in BuildDirs |-> "absent"]
    /\ zipWriters = [z \in ZipPaths |-> {}]
    /\ zipFiles = [z \in ZipPaths |-> <<>>]
    /\ resolved = {}
    /\ pc = [b \in Builds |-> "idle"]
    /\ sourcedir = [b \in Builds |-> ""]
    /\ resources = [b \in Builds |-> <<>>]
    /\ builddir = [b \in Builds |-> ""]
    /\ out = [b \in Builds |-> ""]
    /\ installArgs = [b \in Builds |-> <<>>]
    /\ exitcode = [b \in Builds |-> <<>>]
    /\ ziproot = [b \in Builds |-> ""]
    /\ bdest = [b \in Builds |-> ""]
    /\ ri = [b \in Builds |-> 0]
    /\ contents = [b \in Builds |-> <<>>]
    /\ result = [b \in Builds |-> ""]
    /\ err = [b \in Builds |-> ""]
    /\ log = [b \in Builds |-> <<>>]
    /\ prior = [b \in Builds |-> {}]
    /\ priorFailed = [b \in Builds |-> {}]

InitBucket ==
    /\ _lambda_buckets = <<>>
    /\ bucketsDeclared = <<>>
    /\ setups = <<>>

InitRunner ==
    /\ procs = <<>>
    /\ calls = <<>>

InitEnvIdle ==
    /\ environ = <<>>
    /\ pipenvCalls = <<>>

InitExtraIdle == InitBucket /\ InitRunner /\ InitEnvIdle

Init == InitBuild /\ InitBundleIdle /\ InitAccessorIdle /\ InitExtraIdle

\* Mutant of build_zip_package: the Pipfile test is skipped.
build_zip_package_no_detect(b, d, rmap) ==
    /\ pc[b] = "idle"
    /\ \A a \in Builds : a < b => pc[a] # "idle"
    /\ sourcedir' = [sourcedir EXCEPT ![b] = d]
    /\ resources' = [resources EXCEPT ![b] = rmap]
    /\ prior' = [prior EXCEPT ![b] = {a \in Builds : Logged(a, "warmup_returned")}]
    /\ priorFailed' = [priorFailed EXCEPT ![b] = {a \in Builds : WarmupFailed(a)}]
    /\ pc' = [pc EXCEPT ![b] = "warmup_builddir"]
    /\ UNCHANGED <<lockfile, dirs, populated, zipWriters, zipFiles, resolved,
                   builddir, out, installArgs, exitcode, ziproot, bdest, ri,
                   contents, result, err, log>>

\* build_zip_package up to its first await: detect the package type, then
\* enter warmup, whose first statement awaits get_builddir.
build_zip_package(b, d, rmap) ==
    /\ pc[b] = "idle"
    /\ \A a \in Builds : a < b => pc[a] # "idle"
    /\ sourcedir' = [sourcedir EXCEPT ![b] = d]
    /\ resources' = [resources EXCEPT ![b] = rmap]
    /\ prior' = [prior EXCEPT ![b] = {a \in Builds : Logged(a, "warmup_returned")}]
    /\ priorFailed' = [priorFailed EXCEPT ![b] = {a \in Builds : WarmupFailed(a)}]
    /\ IF HasPipfile(d)
          THEN /\ pc' = [pc EXCEPT ![b] = "warmup_builddir"]
               /\ err' = err
          ELSE /\ pc' = [pc EXCEPT ![b] = "failed"]
               /\ err' = [err EXCEPT ![b] = "OSError"]
    /\ UNCHANGED <<lockfile, dirs, populated, zipWriters, zipFiles, resolved,
                   builddir, out, installArgs, exitcode, ziproot, bdest, ri,
                   contents, result, log>>

\* warmup: builddir = await self.get_builddir()
WarmupGetBuilddir(b) ==
    /\ pc[b] = "warmup_builddir"
    /\ dirs' = dirs \cup {BuildRoot}
    /\ builddir' = [builddir EXCEPT ![b] = get_builddir(sourcedir[b])]
    /\ log' = Append1(log, b, "read_lock")
    /\ pc' = [pc EXCEPT ![b] = "warmup_exists"]
    /\ UNCHANGED <<lockfile, populated, zipWriters, zipFiles, resolved,
                   sourcedir, resources, out, installArgs, exitcode, ziproot,
                   bdest, ri, contents, result, err, prior, priorFailed>>

\* Mutant of warmup: the directory is (re)created and populated without the
\* exists() test.
WarmupExists_NoCheck(b) ==
    /\ pc[b] = "warmup_exists"
    /\ dirs' = dirs \cup {builddir[b]}
    /\ populated' = [populated EXCEPT ![builddir[b]] = "empty"]
    /\ log' = Append1(log, b, "mkdir")
    /\ pc' = [pc EXCEPT ![b] = "pipenv_builddir"]
    /\ UNCHANGED <<lockfile, zipWriters, zipFiles, resolved, sourcedir,
                   resources, builddir, out, installArgs, exitcode, ziproot,
                   bdest, ri, contents, result, err, prior, priorFailed>>

\* Mutant of warmup: a task that finds the directory waits until its
\* population has completed.
WarmupExists_AwaitComplete(b) ==
    /\ pc[b] = "warmup_exists"
    /\ IF builddir[b] \notin dirs
          THEN /\ dirs' = dirs \cup {builddir[b]}
               /\ populated' = [populated EXCEPT ![builddir[b]] = "empty"]
               /\ log' = Append1(log, b, "mkdir")
               /\ pc' = [pc EXCEPT ![b] = "pipenv_builddir"]
          ELSE /\ populated[builddir[b]] = "complete"
               /\ UNCHANGED <<dirs, populated>>
               /\ log' = Append1(log, b, "warmup_returned")
               /\ pc' = [pc EXCEPT ![b] = "build_builddir"]
    /\ UNCHANGED <<lockfile, zipWriters, zipFiles, resolved, sourcedir,
                   resources, builddir, out, installArgs, exitcode, ziproot,
                   bdest, ri, contents, result, err, prior, priorFailed>>

\* warmup: if not builddir.exists(): builddir.mkdir(); then _call_pipenv up
\* to its await of get_builddir.  No await separates the test and the mkdir.
WarmupExists(b) ==
    /\ pc[b] = "warmup_exists"
    /\ IF builddir[b] \notin dirs
          THEN /\ dirs' = dirs \cup {builddir[b]}
               /\ populated' = [populated EXCEPT ![builddir[b]] = "empty"]
               /\ log' = Append1(log, b, "mkdir")
               /\ pc' = [pc EXCEPT ![b] = "pipenv_builddir"]
          ELSE /\ UNCHANGED <<dirs, populated>>
               /\ log' = Append1(log, b, "warmup_returned")
               /\ pc' = [pc EXCEPT ![b] = "build_builddir"]
    /\ UNCHANGED <<lockfile, zipWriters, zipFiles, resolved, sourcedir,
                   resources, builddir, out, installArgs, exitcode, ziproot,
                   bdest, ri, contents, result, err, prior, priorFailed>>

\* _call_pipenv('lock', '--requirements'): the environment is built (which
\* awaits get_builddir) and the resolver is spawned by _call_subprocess.
CallPipenv(b) ==
    /\ pc[b] = "pipenv_builddir"
    /\ log' = [log EXCEPT ![b] = @ \o <<"read_lock", "spawn_resolver">>]
    /\ pc' = [pc EXCEPT ![b] = "resolver"]
    /\ UNCHANGED <<lockfile, dirs, populated, zipWriters, zipFiles, resolved,
                   sourcedir, resources, builddir, out, installArgs, exitcode,
                   ziproot, bdest, ri, contents, result, err, prior, priorFailed>>

\* Mutant of _call_subprocess: the return code is never looked at.
Raises_Never(check, returncode) == FALSE

\* _call_subprocess: if check and proc.returncode != 0: raise
Raises(check, returncode) == check /\ returncode # 0

\* Mutant of warmup: the resolver is run with check=False.
ResolverExit_Unchecked(b, code) ==
    /\ pc[b] = "resolver"
    /\ exitcode' = Append1(exitcode, b, code)
    /\ out' = [out EXCEPT ![b] = Requirements(lockfile[sourcedir[b]])]
    /\ installArgs' = [installArgs EXCEPT ![b] =
                          <<"--target", builddir[b], "-r", out'[b]>>]
    /\ log' = Append1(log, b, "spawn_installer")
    /\ pc' = [pc EXCEPT ![b] = "installer"]
    /\ UNCHANGED <<lockfile, dirs, populated, zipWriters, zipFiles, resolved,
                   sourcedir, resources, builddir, ziproot, bdest, ri,
                   contents, result, err, prior, priorFailed>>

\* The resolver exits.  _call_subprocess raises or returns its stdout; on
\* return warmup writes it to a temporary file and spawns the installer.
ResolverExit(b, code) ==
    /\ pc[b] = "resolver"
    /\ exitcode' = Append1(exitcode, b, code)
    /\ IF Raises(TRUE, code)
          THEN /\ err' = [err EXCEPT ![b] = "SubprocessError"]
               /\ pc' = [pc EXCEPT ![b] = "failed"]
               /\ UNCHANGED <<out, installArgs, log>>
          ELSE /\ out' = [out EXCEPT ![b] = Requirements(lockfile[sourcedir[b]])]
               /\ installArgs' = [installArgs EXCEPT ![b] =
                                     <<"--target", builddir[b], "-r", out'[b]>>]
               /\ log' = Append1(log, b, "spawn_installer")
               /\ pc' = [pc EXCEPT ![b] = "installer"]
               /\ err' = err
    /\ UNCHANGED <<lockfile, dirs, populated, zipWriters, zipFiles, resolved,
                   sourcedir, resources, builddir, ziproot, bdest, ri,
                   contents, result, prior, priorFailed>>

\* Mutant of warmup: a failed installation removes the build directory.
InstallerExit_Cleanup(b, code) ==
    /\ pc[b] = "installer"
    /\ exitcode' = Append1(exitcode, b, code)
    /\ IF Raises(TRUE, code)
          THEN /\ err' = [err EXCEPT ![b] = "SubprocessError"]
               /\ pc' = [pc EXCEPT ![b] = "failed"]
               /\ dirs' = dirs \ {builddir[b]}
               /\ populated' = [populated EXCEPT ![builddir[b]] = "absent"]
               /\ log' = log
          ELSE /\ log' = Append1(log, b, "warmup_returned")
               /\ pc' = [pc EXCEPT ![b] = "build_builddir"]
               /\ populated' = [populated EXCEPT ![builddir[b]] = "complete"]
               /\ UNCHANGED <<err, dirs>>
    /\ UNCHANGED <<lockfile, zipWriters, zipFiles, resolved, sourcedir,
                   resources, builddir, out, installArgs, ziproot, bdest, ri,
                   contents, result, prior, priorFailed>>

\* The installer exits.  It has written into its target directory; warmup
\* returns unless _call_subprocess raises.
InstallerExit(b, code) ==
    /\ pc[b] = "installer"
    /\ exitcode' = Append1(exitcode, b, code)
    /\ populated' = [populated EXCEPT ![builddir[b]] =
                        IF code = 0 THEN "complete" ELSE "partial"]
    /\ IF Raises(TRUE, code)
          THEN /\ err' = [err EXCEPT ![b] = "SubprocessError"]
               /\ pc' = [pc EXCEPT ![b] = "failed"]
               /\ log' = log
          ELSE /\ log' = Append1(log, b, "warmup_returned")
               /\ pc' = [pc EXCEPT ![b] = "build_builddir"]
               /\ err' = err
    /\ UNCHANGED <<lockfile, dirs, zipWriters, zipFiles, resolved, sourcedir,
                   resources, builddir, out, installArgs, ziproot, bdest, ri,
                   contents, result, prior, priorFailed>>

\* build: builddir = await self.get_builddir(); ziproot = builddir;
\* dest = str(builddir) + '.zip'; then the arguments of _build_zip are
\* evaluated, which starts self.resgen.build().
BuildGetBuilddir(b) ==
    /\ pc[b] = "build_builddir"
    /\ ziproot' = [ziproot EXCEPT ![b] = get_builddir(sourcedir[b])]
    /\ bdest' = [bdest EXCEPT ![b] = get_builddir(sourcedir[b]) \o ".zip"]
    /\ ri' = [ri EXCEPT ![b] = 1]
    /\ contents' = [contents EXCEPT ![b] = <<>>]
    /\ log' = [log EXCEPT ![b] = @ \o <<"read_lock", "resgen_started">>]
    /\ pc' = [pc EXCEPT ![b] = "resgen"]
    /\ UNCHANGED <<lockfile, dirs, populated, zipWriters, zipFiles, resolved,
                   sourcedir, resources, builddir, out, installArgs, exitcode,
                   result, err, prior, priorFailed>>

\* Mutant of ResourceGenerator.build: a resource whose type has no entry in
\* BUILDERS is left out of the module instead of failing the build.
ResgenItem_SkipUnknown(b) ==
    /\ pc[b] = "resgen"
    /\ ri[b] <= Len(resources[b])
    /\ LET r == resources[b][ri[b]]
           fqn == get_fqn(r.res)
       IN IF fqn \notin DOMAIN BUILDERS
            THEN /\ ri' = [ri EXCEPT ![b] = @ + 1]
                 /\ UNCHANGED <<err, pc, contents>>
            ELSE /\ r.res \in resolved
                 /\ contents' = Append1(contents, b,
                        [name |-> r.name,
                         args |-> BUILDERS[fqn].attrs,
                         expr |-> BUILDERS[fqn].expr,
                         values |-> [i \in DOMAIN BUILDERS[fqn].attrs |->
                                       AttrValue(r.res, BUILDERS[fqn].attrs[i])]])
                 /\ ri' = [ri EXCEPT ![b] = @ + 1]
                 /\ UNCHANGED <<err, pc>>
    /\ UNCHANGED <<lockfile, dirs, populated, zipWriters, zipFiles, resolved,
                   sourcedir, resources, builddir, out, installArgs, exitcode,
                   ziproot, bdest, result, log, prior, priorFailed>>

\* Mutant of ResourceGenerator.build: the attributes are formatted into the
\* ITEM without awaiting the future of their values.
ResgenItem_NoAwait(b) ==
    /\ pc[b] = "resgen"
    /\ ri[b] <= Len(resources[b])
    /\ LET r == resources[b][ri[b]]
           fqn == get_fqn(r.res)
       IN IF fqn \notin DOMAIN BUILDERS
            THEN /\ err' = [err EXCEPT ![b] = "KeyError"]
                 /\ pc' = [pc EXCEPT ![b] = "failed"]
                 /\ UNCHANGED <<ri, contents>>
            ELSE /\ contents' = Append1(contents, b,
                        [name |-> r.name,
                         args |-> BUILDERS[fqn].attrs,
                         expr |-> BUILDERS[fqn].expr,
                         values |-> [i \in DOMAIN BUILDERS[fqn].attrs |->
                                       IF r.res \in resolved
                                         THEN AttrValue(r.res, BUILDERS[fqn].attrs[i])
                                         ELSE "<pulumi.Output>"]])
                 /\ ri' = [ri EXCEPT ![b] = @ + 1]
                 /\ UNCHANGED <<err, pc>>
    /\ UNCHANGED <<lockfile, dirs, populated, zipWriters, zipFiles, resolved,
                   sourcedir, resources, builddir, out, installArgs, exitcode,
                   ziproot, bdest, result, log, prior, priorFailed>>

\* ResourceGenerator.build, one iteration of its loop: the BUILDERS lookup,
\* the await of the resource's attributes, the ITEM appended to contents.
ResgenItem(b) ==
    /\ pc[b] = "resgen"
    /\ ri[b] <= Len(resources[b])
    /\ LET r == resources[b][ri[b]]
           fqn == get_fqn(r.res)
       IN IF fqn \notin DOMAIN BUILDERS
            THEN /\ err' = [err EXCEPT ![b] = "KeyError"]
                 /\ pc' = [pc EXCEPT ![b] = "failed"]
                 /\ UNCHANGED <<ri, contents>>
            ELSE /\ r.res \in resolved
                 /\ contents' = Append1(contents, b,
                        [name |-> r.name,
                         args |-> BUILDERS[fqn].attrs,
                         expr |-> BUILDERS[fqn].expr,
                         values |-> [i \in DOMAIN BUILDERS[fqn].attrs |->
                                       AttrValue(r.res, BUILDERS[fqn].attrs[i])]])
                 /\ ri' = [ri EXCEPT ![b] = @ + 1]
                 /\ UNCHANGED <<err, pc>>
    /\ UNCHANGED <<lockfile, dirs, populated, zipWriters, zipFiles, resolved,
                   sourcedir, resources, builddir, out, installArgs, exitcode,
                   ziproot, bdest, result, log, prior, priorFailed>>

\* ResourceGenerator.build returns its source; build calls _build_zip, which
\* opens dest for writing in a background thread.
ResgenReturn(b) ==
    /\ pc[b] = "resgen"
    /\ ri[b] > Len(resources[b])
    /\ log' = [log EXCEPT ![b] = @ \o <<"resgen_returned", "zip_opened">>]
    /\ zipWriters' = [zipWriters EXCEPT ![bdest[b]] = @ \cup {b}]
    /\ pc' = [pc EXCEPT ![b] = "zip"]
    /\ UNCHANGED <<lockfile, dirs, populated, zipFiles, resolved, sourcedir,
                   resources, builddir, out, installArgs, exitcode, ziproot,
                   bdest, ri, contents, result, err, prior, priorFailed>>

\* Mutant of build: dest is returned without awaiting _build_zip.
BuildZipDone_NoAwait(b) ==
    /\ pc[b] = "zip"
    /\ log' = Append1(log, b, "returned")
    /\ result' = [result EXCEPT ![b] = bdest[b]]
    /\ pc' = [pc EXCEPT ![b] = "done"]
    /\ UNCHANGED <<lockfile, dirs, populated, zipWriters, zipFiles, resolved,
                   sourcedir, resources, builddir, out, installArgs, exitcode,
                   ziproot, bdest, ri, contents, err, prior, priorFailed>>

\* _build_zip finishes and closes the archive; build returns dest and
\* build_zip_package returns the FileAsset of that path.
BuildZipDone(b) ==
    /\ pc[b] = "zip"
    /\ zipWriters' = [zipWriters EXCEPT ![bdest[b]] = @ \ {b}]
    /\ zipFiles' = [zipFiles EXCEPT ![bdest[b]] =
                       <<[sources |-> <<ziproot[b], sourcedir[b]>>,
                          virtuals |-> contents[b]]>>]
    /\ log' = [log EXCEPT ![b] = @ \o <<"zip_closed", "returned">>]
    /\ result' = [result EXCEPT ![b] = bdest[b]]
    /\ pc' = [pc EXCEPT ![b] = "done"]
    /\ UNCHANGED <<lockfile, dirs, populated, resolved, sourcedir, resources,
                   builddir, out, installArgs, exitcode, ziproot, bdest, ri,
                   contents, err, prior, priorFailed>>

\* The provisioning layer resolves the output attributes of a resource.  The
\* moment is observable only by a task that awaits them, so it is taken when
\* some ResourceGenerator.build is suspended on the resource.
Awaiting(b, h) ==
    /\ pc[b] = "resgen"
    /\ ri[b] <= Len(resources[b])
    /\ resources[b][ri[b]].res = h
    /\ get_fqn(h) \in DOMAIN BUILDERS

Provision(h) ==
    /\ h \notin resolved
    /\ \E b \in Builds : Awaiting(b, h)
    /\ resolved' = resolved \cup {h}
    /\ UNCHANGED <<lockfile, dirs, populated, zipWriters, zipFiles, pc,
                   sourcedir, resources, builddir, out, installArgs, exitcode,
                   ziproot, bdest, ri, contents, result, err, log, prior, priorFailed>>

NextBuild ==
    \/ \E b \in Builds, pkg \in Packages :
          build_zip_package(b, pkg.sourcedir, pkg.resources)
    \/ \E b \in Builds : WarmupGetBuilddir(b)
    \/ \E b \in Builds : WarmupExists(b)
    \/ \E b \in Builds : CallPipenv(b)
    \/ \E b \in Builds, code \in ExitCodes : ResolverExit(b, code)
    \/ \E b \in Builds, code \in ExitCodes : InstallerExit(b, code)
    \/ \E b \in Builds : BuildGetBuilddir(b)
    \/ \E b \in Builds : ResgenItem(b)
    \/ \E b \in Builds : ResgenReturn(b)
    \/ \E b \in Builds : BuildZipDone(b)
    \/ \E h \in Handles : Provision(h)

Next == NextBuild /\ UNCHANGED <<bundleVars, accessorVars, extraVars>>

Spec == Init /\ [][Next]_vars

\* SpecRelock: as Spec, on a host where Pipfile.lock files are rewritten
\* while builds run (a developer or a tool runs 'pipenv lock').  The rewrite
\* is observable only by a task that has read the file and will read it
\* again.
ReadsAgain(b) ==
    pc[b] \in {"warmup_exists", "pipenv_builddir", "resolver", "installer",
               "build_builddir"}

RewriteLockfile(d, bytes) ==
    /\ lockfile[d] # bytes
    /\ \E b \in Builds : sourcedir[b] = d /\ ReadsAgain(b)
    /\ lockfile' = [lockfile EXCEPT ![d] = bytes]
    /\ UNCHANGED <<dirs, populated, zipWriters, zipFiles, resolved, pc,
                   sourcedir, resources, builddir, out, installArgs, exitcode,
                   ziproot, bdest, ri, contents, result, err, log, prior,
                   priorFailed>>

NextRelock ==
    /\ \/ NextBuild
       \/ \E d \in SourceDirs, bytes \in LockBytes : RewriteLockfile(d, bytes)
    /\ UNCHANGED <<bundleVars, accessorVars, extraVars>>

SpecRelock == Init /\ [][NextRelock]_vars

\* SpecFair: the event loop runs every task that is ready, every child
\* process exits and every awaited resource attribute resolves.
TaskStep(b) ==
    \/ WarmupGetBuilddir(b)
    \/ WarmupExists(b)
    \/ CallPipenv(b)
    \/ \E code \in ExitCodes : ResolverExit(b, code)
    \/ \E code \in ExitCodes : InstallerExit(b, code)
    \/ BuildGetBuilddir(b)
    \/ ResgenItem(b)
    \/ ResgenReturn(b)
    \/ BuildZipDone(b)

Untouched == UNCHANGED <<bundleVars, accessorVars, extraVars>>

Fairness ==
    /\ \A b \in Builds : WF_vars(TaskStep(b) /\ Untouched)
    /\ \A h \in Handles : WF_vars(Provision(h) /\ Untouched)

\* The declarations the fair behaviours start builds of: a package that
\* awaits the name of a bucket, a package with other lock bytes whose queue
\* has no builder, and a directory without a Pipfile.
FairPackages ==
    {pkg \in Packages :
        \/ pkg.sourcedir \in {"/srv/a", "/srv/d"}
        \/ pkg.sourcedir = "/srv/c" /\ Len(pkg.resources) = 1}

NextFair ==
    /\ \/ \E b \in Builds, pkg \in FairPackages :
             build_zip_package(b, pkg.sourcedir, pkg.resources)
       \/ \E b \in Builds : TaskStep(b)
       \/ \E h \in Handles : Provision(h)
    /\ Untouched

SpecFair == Init /\ [][NextFair]_vars /\ Fairness

-----------------------------------------------------------------------------
(* SpecBundle: PipenvPackage._build_zip over file trees                    *)

\* A file name is a sequence of tokens whose juxtaposition is the name, so
\* that str.endswith and equality of names are computed on the characters.
N(t) == <<t>>
Dotted(a, b) == <<a, ".", b>>

RECURSIVE NameStr(_)
NameStr(name) ==
    IF name = <<>> THEN "" ELSE Head(name) \o NameStr(Tail(name))

\* str.endswith
EndsWith(name, suffix) ==
    /\ Len(name) >= Len(suffix)
    /\ SubSeq(name, Len(name) - Len(suffix) + 1, Len(name)) = suffix

\* A path is a sequence of names.  PurePath.as_posix()
RECURSIVE AsPosix(_)
AsPosix(path) ==
    IF Len(path) = 0 THEN "."
    ELSE IF Len(path) = 1 THEN NameStr(path[1])
    ELSE NameStr(path[1]) \o "/" \o AsPosix(Tail(path))

\* PurePath.relative_to
RelativeTo(child, source) == SubSeq(child, Len(source) + 1, Len(child))

\* PurePath.parents, longest first, ending with '.'
Parents(relpath) ==
    [i \in 1..Len(relpath) |-> SubSeq(relpath, 1, Len(relpath) - i)]

\* PurePath.name
PathName(path) == IF path = <<>> THEN "" ELSE NameStr(path[Len(path)])

\* Mutant of _get_root: the directory holding the file (parents[0]) is taken
\* instead of the first directory (parents[-2]).
_get_root_innermost(relpath) ==
    LET p == Parents(relpath)
    IN IF Len(p) = 1 THEN relpath ELSE p[1]

\* _get_root
_get_root(relpath) ==
    LET p == Parents(relpath)
    IN IF Len(p) = 1 THEN relpath ELSE p[Len(p) - 1]

DistInfoSuffix == <<".", "dist-info">>
RuntimeProvided == {"boto3", "botocore"}

\* PipenvPackage._filter
_filter(path) ==
    LET root == _get_root(path)
    IN IF root # <<>> /\ EndsWith(root[Len(root)], DistInfoSuffix) THEN FALSE
       ELSE IF PathName(root) \in RuntimeProvided THEN FALSE
       ELSE TRUE

\* date_time of a zipfile.ZipInfo that was not given one; host modification
\* times are counted from it.
ZipEpoch == 0
Mtimes == {1, 2}

\* mkzinfo + ZipFile.writestr: the entry of a virtual file
mkzinfo(v) ==
    [filename |-> v.name, data |-> v.data, date_time |-> ZipEpoch]

\* ZipFile.write(child, arcname): the entry of a file or directory on disk
\* (ZipInfo.from_file: the host mtime, a trailing '/' for a directory)
DiskEntry(child, arcname, mtime) ==
    [filename |-> IF child.is_dir THEN AsPosix(arcname) \o "/" ELSE AsPosix(arcname),
     data     |-> IF child.is_dir THEN "" ELSE child.data,
     date_time |-> mtime]

\* filter is None or filter(arcname)
Passes(flt, arcname) == flt = "none" \/ _filter(arcname)

\* The inner loop of _build_zip over one source, whose rglob('*') yields its
\* descendants in the order walk.
WriteSource(source, walk, flt, mtime) ==
    LET kept == SelectSeq(walk,
                    LAMBDA child : Passes(flt, RelativeTo(child.path, source.root)))
    IN [i \in 1..Len(kept) |->
           DiskEntry(kept[i], RelativeTo(kept[i].path, source.root), mtime)]

RECURSIVE WriteSources(_, _, _, _)
WriteSources(sources, walks, flt, mtime) ==
    IF sources = <<>> THEN <<>>
    ELSE WriteSource(Head(sources), Head(walks), flt, mtime)
             \o WriteSources(Tail(sources), Tail(walks), flt, mtime)

\* Mutant of _build_zip: the filter is applied to the virtual files too.
_build_zip_filter_virtuals(sources, walks, virtuals, flt, mtime) ==
    LET kept == SelectSeq(virtuals, LAMBDA v : v.name # "boto3/shim.py")
    IN WriteSources(sources, walks, flt, mtime)
          \o [i \in 1..Len(kept) |-> mkzinfo(kept[i])]

\* PipenvPackage._build_zip: the entries of the archive it writes, in order
_build_zip(sources, walks, virtuals, flt, mtime) ==
    WriteSources(sources, walks, flt, mtime)
        \o [i \in 1..Len(virtuals) |-> mkzinfo(virtuals[i])]

\* Orders in which a directory walk may yield the members of a set
Walks(S) ==
    {w \in [1..Cardinality(S) -> S] : \A i, j \in DOMAIN w : w[i] = w[j] => i = j}

\* Candidate children of the two source trees build() passes: the build
\* directory pip installed into, and the package's source root.
File(path, data) == [path |-> path, is_dir |-> FALSE, data |-> data]
Dir(path) == [path |-> path, is_dir |-> TRUE, data |-> ""]

DepRoot == <<N("tmp"), N("deplumi"), N("5f1a")>>
SrcRoot == <<N("srv"), N("a")>>

DepChildren ==
    { Dir(DepRoot \o <<N("boto3")>>),
      File(DepRoot \o <<N("boto3"), Dotted("client", "py")>>, "boto3-client"),
      Dir(DepRoot \o <<Dotted("foo", "dist-info")>>),
      File(DepRoot \o <<Dotted("foo", "dist-info"), N("METADATA")>>, "foo-meta"),
      File(DepRoot \o <<Dotted("six", "py")>>, "six-1.0") }

SrcChildren ==
    { Dir(SrcRoot \o <<N("app")>>),
      File(SrcRoot \o <<N("app"), Dotted("handler", "py")>>, "handler"),
      File(SrcRoot \o <<Dotted("six", "py")>>, "six-vendored"),
      File(SrcRoot \o <<N("botocore")>>, "notes"),
      File(SrcRoot \o <<Dotted("__res__", "py")>>, "stale") }

\* A set of children is a tree when the directory of each member is the root
\* or a member.
IsTree(root, S) ==
    \A c \in S :
        \/ Len(c.path) = Len(root) + 1
        \/ \E d \in S : d.is_dir /\ d.path = SubSeq(c.path, 1, Len(c.path) - 1)

MaxTreeSize == 2

Trees(root, candidates) ==
    {S \in SUBSET candidates : Cardinality(S) <= MaxTreeSize /\ IsTree(root, S)}

VirtualSets ==
    { <<[name |-> "__res__.py", data |-> "generated"]>>,
      <<[name |-> "__res__.py", data |-> "generated"],
        [name |-> "boto3/shim.py", data |-> "shim"]>> }

\* The bundler is run twice over the same inputs.
Runs == {1, 2}

\* The inputs of the bundler: two source trees, the virtual files, the filter.
InitBundle ==
    /\ zfilter \in {"default", "none"}
    /\ \E dep \in Trees(DepRoot, DepChildren), src \in Trees(SrcRoot, SrcChildren) :
          ztrees = <<[root |-> DepRoot, children |-> dep],
                     [root |-> SrcRoot, children |-> src]>>
    /\ zvirtuals \in VirtualSets
    /\ zwalks = <<>>
    /\ zmtime = [r \in Runs |-> ZipEpoch]
    /\ zarchive = [r \in Runs |-> <<>>]
    /\ zdecisions = <<>>
    /\ InitBuild
    /\ InitAccessorIdle
    /\ InitExtraIdle

RunDone(r) == zmtime[r] # ZipEpoch

\* First run of _build_zip over the inputs, on a host where the files carry
\* modification time mtime and the directory walks yield walks.
ZipRun(mtime, walks) ==
    /\ ~RunDone(1)
    /\ zwalks' = walks
    /\ zmtime' = [zmtime EXCEPT ![1] = mtime]
    /\ zarchive' = [zarchive EXCEPT ![1] =
                       _build_zip(ztrees, walks, zvirtuals, zfilter, mtime)]
    /\ UNCHANGED <<zfilter, ztrees, zvirtuals, zdecisions>>

\* Second run of _build_zip over the same directories, whose files now carry
\* modification time mtime (their contents were not changed).
ZipRerun(mtime) ==
    /\ RunDone(1) /\ ~RunDone(2)
    /\ zmtime' = [zmtime EXCEPT ![2] = mtime]
    /\ zarchive' = [zarchive EXCEPT ![2] =
                       _build_zip(ztrees, zwalks, zvirtuals, zfilter, mtime)]
    /\ UNCHANGED <<zfilter, ztrees, zvirtuals, zwalks, zdecisions>>

NextBundle ==
    \/ /\ ~RunDone(1)
       /\ \E mtime \in Mtimes,
             w1 \in Walks(ztrees[1].children), w2 \in Walks(ztrees[2].children) :
                ZipRun(mtime, <<w1, w2>>)
    \/ \E mtime \in Mtimes : ZipRerun(mtime)

SpecBundle ==
    InitBundle /\ [][NextBundle /\ UNCHANGED <<buildVars, accessorVars, extraVars>>]_vars

-----------------------------------------------------------------------------
(* SpecFilter: PipenvPackage._filter over relative paths                   *)

FilterNames ==
    { N("app"), N("METADATA"), N("boto3"), N("botocore"),
      Dotted("handler", "py"), Dotted("boto3", "py"),
      Dotted("foo", "dist-info"), DistInfoSuffix,
      <<"x", "dist-info">>, <<"my", "boto3">>,
      <<"foo", ".", "dist-info", ".", "bak">>, N("dist-info") }

MaxDepth == 3

FilterPaths ==
    UNION {[1..n -> FilterNames] : n \in 1..MaxDepth}

InitFilter ==
    /\ zfilter = "default"
    /\ ztrees = <<>>
    /\ zvirtuals = <<>>
    /\ zwalks = <<>>
    /\ zmtime = <<>>
    /\ zarchive = <<>>
    /\ zdecisions = <<>>
    /\ InitBuild
    /\ InitAccessorIdle
    /\ InitExtraIdle

\* _build_zip asks the filter about one relative path.
FilterCall(path) ==
    /\ zdecisions = <<>>
    /\ zdecisions' = <<[path |-> path, accept |-> _filter(path)]>>
    /\ UNCHANGED <<zfilter, ztrees, zvirtuals, zwalks, zmtime, zarchive>>

NextFilter == zdecisions = <<>> /\ \E path \in FilterPaths : FilterCall(path)

SpecFilter ==
    InitFilter /\ [][NextFilter /\ UNCHANGED <<buildVars, accessorVars, extraVars>>]_vars

-----------------------------------------------------------------------------
(* SpecAccessor: the generated module's __getattr__ under lru_cache()      *)

\* functools.lru_cache() is given no maxsize: its default applies.
LruMaxsize == 128

\* The keys of _resources are the names 1..NumNames; 0 is a name that is not
\* a key of _resources.
NumNames == 130
Registered == 1..NumNames
Unregistered == 0

InitAccessor ==
    /\ lruCache = <<>>
    /\ thunkRuns = [n \in Registered |-> <<>>]
    /\ nextObj = 0
    /\ lastLookup = [name |-> Unregistered, outcome |-> "none", obj |-> 0]
    /\ InitBuild
    /\ InitExtraIdle
    /\ zfilter = "off"
    /\ ztrees = <<>>
    /\ zvirtuals = <<>>
    /\ zwalks = <<>>
    /\ zmtime = <<>>
    /\ zarchive = <<>>
    /\ zdecisions = <<>>

CachedAt(name) == {i \in DOMAIN lruCache : lruCache[i].name = name}

\* The sequence without its i-th element
Without(seq, i) == SubSeq(seq, 1, i - 1) \o SubSeq(seq, i + 1, Len(seq))

\* lru_cache: a full cache drops its least recently used entry for a new one
Inserted(cache, entry) ==
    IF Len(cache) >= LruMaxsize THEN Append(Tail(cache), entry)
                                ELSE Append(cache, entry)

\* An attribute lookup that reaches the module's __getattr__(name): a cache
\* hit returns the cached object; a miss runs the body, which raises for a
\* name not in _resources and otherwise runs ctor(*args) and caches its
\* result.
__getattr__(name) ==
    IF CachedAt(name) # {}
      THEN LET i == CHOOSE j \in CachedAt(name) : TRUE
           IN /\ lruCache' = Append(Without(lruCache, i), lruCache[i])
              /\ lastLookup' = [name |-> name, outcome |-> "returned",
                                obj |-> lruCache[i].obj]
              /\ UNCHANGED <<thunkRuns, nextObj>>
      ELSE IF name \notin Registered
        THEN /\ lastLookup' = [name |-> name, outcome |-> "AttributeError",
                               obj |-> 0]
             /\ UNCHANGED <<lruCache, thunkRuns, nextObj>>
        ELSE /\ nextObj' = nextObj + 1
             /\ thunkRuns' = [thunkRuns EXCEPT ![name] = Append(@, nextObj + 1)]
             /\ lruCache' = Inserted(lruCache, [name |-> name, obj |-> nextObj + 1])
             /\ lastLookup' = [name |-> name, outcome |-> "returned",
                               obj |-> nextObj + 1]

\* The bundled code looks up: a name that is not registered, the first
\* registered name again, or the next registered name it has not yet used.
LookedUp == {n \in Registered : thunkRuns[n] # <<>>}

LookupNames ==
    {Unregistered, 1} \cup {n \in Registered : n = Cardinality(LookedUp) + 1}

NextAccessor == \E name \in LookupNames : __getattr__(name)

SpecAccessor ==
    InitAccessor /\ [][NextAccessor /\ UNCHANGED <<buildVars, bundleVars, extraVars>>]_vars

-----------------------------------------------------------------------------
(* SpecBucket: get_lambda_bucket called by Package.set_up                  *)

\* The Package components a deployment declares; each is set up once.
NumPackages == 5
Components == 1..NumPackages

Regions == <<"us-east-1", "eu-west-1", "ap-south-1">>

\* putils.get_region(resource): the region of the component's provider
get_region(resource) == Regions[(resource % Len(Regions)) + 1]

NoResource == 0

\* s3.Bucket(f'lambda-bucket-{region}', region=region, ...): the resource is
\* identified by its position among the declared buckets.
DeclareBucket(region) ==
    Append(bucketsDeclared, [name |-> "lambda-bucket-" \o region, region |-> region])

\* Mutant of get_lambda_bucket: the registry is not consulted.
get_lambda_bucket_no_memo(region, resource, caller) ==
    LET key == IF resource # NoResource THEN get_region(resource) ELSE region
    IN /\ bucketsDeclared' = DeclareBucket(key)
       /\ _lambda_buckets' = (key :> Len(bucketsDeclared')) @@ _lambda_buckets
       /\ setups' = Append(setups, [package |-> caller, region |-> key,
                                    bucket |-> _lambda_buckets'[key]])

\* get_lambda_bucket(region, resource).  It is a plain function: it has no
\* await, so the event loop runs no other task between its membership test
\* and its assignment.  caller is the set_up that receives the return value.
get_lambda_bucket(region, resource, caller) ==
    LET key == IF resource # NoResource THEN get_region(resource) ELSE region
    IN /\ IF key \notin DOMAIN _lambda_buckets
            THEN /\ bucketsDeclared' = DeclareBucket(key)
                 /\ _lambda_buckets' =
                        (key :> Len(bucketsDeclared')) @@ _lambda_buckets
            ELSE UNCHANGED <<_lambda_buckets, bucketsDeclared>>
       /\ setups' = Append(setups, [package |-> caller, region |-> key,
                                    bucket |-> _lambda_buckets'[key]])

SetUp == {setups[i].package : i \in DOMAIN setups}

\* Package.set_up up to its return: bucket = get_lambda_bucket(resource=self).
\* The build it schedules through build_zip_package runs as a task of Spec.
set_up(self) ==
    /\ self \notin SetUp
    /\ get_lambda_bucket("", self, self)

NextBucket == \E self \in Components : set_up(self)

SpecBucket ==
    Init /\ [][NextBucket /\ UNCHANGED <<buildVars, bundleVars, accessorVars,
                                          runnerVars, envVars>>]_vars

-----------------------------------------------------------------------------
(* SpecRunner: PipenvPackage._call_subprocess                              *)

NumCalls == 2

\* The two ways warmup uses the runner: the resolver with stdout=PIPE, the
\* installer with inherited streams; check is the keyword argument.
Commands ==
    { [cmd |-> <<"pipenv", "lock", "--requirements">>, stdout |-> "PIPE"],
      [cmd |-> <<"pip", "install">>, stdout |-> "inherit"] }

\* What a child may do: its exit status and what it wrote to its streams.
ChildExits ==
    { [returncode |-> 0, stdout |-> "reqs", stderr |-> ""],
      [returncode |-> 0, stdout |-> "", stderr |-> "warning"],
      [returncode |-> 1, stdout |-> "", stderr |-> "boom"],
      [returncode |-> 2, stdout |-> "part", stderr |-> "boom"] }

\* proc.communicate(): a stream that is not a pipe yields None.  No caller
\* passes stderr=PIPE.
Communicated(opts, exit) ==
    <<IF opts.stdout = "PIPE" THEN exit.stdout ELSE "None", "None">>

\* _call_subprocess up to 'await proc.communicate()': the child is spawned.
_call_subprocess(command, check) ==
    /\ Len(calls) < NumCalls
    /\ procs' = Append(procs, [call |-> Len(calls) + 1, cmd |-> command.cmd,
                               running |-> TRUE,
                               returncode |-> 0, stdout |-> "", stderr |-> ""])
    /\ calls' = Append(calls, [command |-> command, check |-> check,
                               pc |-> "communicate", proc |-> Len(procs) + 1,
                               outcome |-> [kind |-> "pending", exc |-> "",
                                            args |-> <<>>, value |-> <<>>]])

\* The child of call c exits and communicate() returns; _call_subprocess
\* raises 'subprocess.SubprocessError' (the bare class: an instance without
\* arguments) or returns the pair.
ChildExit(c, exit) ==
    /\ calls[c].pc = "communicate"
    /\ procs' = [procs EXCEPT ![calls[c].proc] =
                    [@ EXCEPT !.running = FALSE,
                              !.returncode = exit.returncode,
                              !.stdout = exit.stdout,
                              !.stderr = exit.stderr]]
    /\ calls' = [calls EXCEPT ![c] =
                    [@ EXCEPT !.pc = "done",
                              !.outcome =
                                 IF Raises(calls[c].check, exit.returncode)
                                   THEN [kind |-> "raise",
                                         exc |-> "SubprocessError",
                                         args |-> <<>>, value |-> <<>>]
                                   ELSE [kind |-> "return", exc |-> "",
                                         args |-> <<>>,
                                         value |-> Communicated(calls[c].command,
                                                                exit)]]]

NextRunner ==
    \/ \E command \in Commands, check \in BOOLEAN : _call_subprocess(command, check)
    \/ \E c \in DOMAIN calls, exit \in ChildExits : ChildExit(c, exit)

SpecRunner ==
    Init /\ [][NextRunner /\ UNCHANGED <<buildVars, bundleVars, accessorVars,
                                          bucketVars, envVars>>]_vars

-----------------------------------------------------------------------------
(* SpecEnv: the environment PipenvPackage._call_pipenv builds              *)

\* os.environ: a dict, here a function on the names that are set.
AmbientNames == {"PATH", "PIPENV_PIPFILE", "PIPENV_VIRTUALENV", "PIPENV_VERBOSITY"}
AmbientValues == {"/home/dev/Pipfile", "/home/dev/.venv"}

Environs == UNION {[S -> AmbientValues] : S \in SUBSET AmbientNames}

\* {**first, **later}: for a name in both, the later mapping wins.
DictMerge(first, later) ==
    [k \in DOMAIN first \cup DOMAIN later |->
        IF k \in DOMAIN later THEN later[k] ELSE first[k]]

\* self.pipfile
Pipfile(root) == root \o "/Pipfile"

\* The entries _call_pipenv writes before **os.environ
PipenvSettings(root) ==
    [k \in {"PIPENV_NOSPIN", "PIPENV_PIPFILE", "PIPENV_VIRTUALENV",
            "PIPENV_VERBOSITY"} |->
        IF k = "PIPENV_NOSPIN" THEN "1"
        ELSE IF k = "PIPENV_PIPFILE" THEN Pipfile(root)
        ELSE IF k = "PIPENV_VIRTUALENV" THEN get_builddir(root)
        ELSE "-1"]

\* The dict display of _call_pipenv: its own entries, then **os.environ
PipenvEnv(root) == DictMerge(PipenvSettings(root), environ)

InitEnv ==
    /\ environ \in Environs
    /\ pipenvCalls = <<>>
    /\ InitBuild /\ InitBundleIdle /\ InitAccessorIdle
    /\ InitBucket /\ InitRunner

\* _call_pipenv('lock', '--requirements') of the package rooted at root: what
\* it hands to _call_subprocess.
_call_pipenv(root) ==
    /\ pipenvCalls = <<>>
    /\ pipenvCalls' = <<[root |-> root,
                         cmd |-> <<"pipenv", "lock", "--requirements">>,
                         env |-> PipenvEnv(root),
                         cwd |-> root]>>
    /\ UNCHANGED environ

NextEnv ==
    \E root \in {d \in SourceDirs : HasPipfile(d)} : _call_pipenv(root)

SpecEnv ==
    InitEnv /\ [][NextEnv /\ UNCHANGED <<buildVars, bundleVars, accessorVars,
                                          bucketVars, runnerVars>>]_vars

-----------------------------------------------------------------------------
(* Properties of Spec                                                      *)

\* Number of times a step e was logged by tasks whose warmup used build
\* directory p.
Invocations(p, e) ==
    Cardinality(UNION {{<<b, i>> : i \in {j \in DOMAIN log[b] : log[b][j] = e}} :
                          b \in {c \in Builds : builddir[c] = p}})

WarmupOver(b) ==
    \/ Logged(b, "warmup_returned")
    \/ builddir[b] # "" /\ pc[b] = "failed"

\* At least two tasks computed build directory p and every one of them has
\* left warmup.
TwoWarmupsOver(p) ==
    /\ Cardinality({b \in Builds : builddir[b] = p}) >= 2
    /\ \A b \in Builds : builddir[b] = p => WarmupOver(b)

ResolverSucceeded(p) ==
    \E b \in Builds :
        builddir[b] = p /\ Len(exitcode[b]) >= 1 /\ exitcode[b][1] = 0

\* C1 as stated: whenever two builds with the same lock bytes have both left
\* warmup, the resolver was invoked exactly once and the installer exactly
\* once in total.
C1_ExactlyOnceEach ==
    \A p \in BuildDirs :
        TwoWarmupsOver(p) =>
            /\ Invocations(p, "spawn_resolver") = 1
            /\ Invocations(p, "spawn_installer") = 1

\* C1 amended: for any interleaving of builds with the same lock bytes the
\* resolver is never invoked more than once and the installer never more than
\* once; once all of them have left warmup the resolver was invoked exactly
\* once, and the installer exactly once if the resolver exited 0 and not at
\* all if it failed.
C1_Dedup ==
    \A p \in BuildDirs :
        /\ Invocations(p, "spawn_resolver") <= 1
        /\ Invocations(p, "spawn_installer") <= 1
        /\ TwoWarmupsOver(p) =>
              /\ Invocations(p, "spawn_resolver") = 1
              /\ Invocations(p, "spawn_installer") =
                    (IF ResolverSucceeded(p) THEN 1 ELSE 0)

\* Two builds with the same lock bytes ran their warmups concurrently (neither
\* began after the other's had returned), both returned, and the installer ran.
C1_Witness ==
    \E a, b \in Builds :
        /\ a # b
        /\ builddir[a] = builddir[b]
        /\ a \notin prior[b] /\ b \notin prior[a]
        /\ Logged(a, "warmup_returned") /\ Logged(b, "warmup_returned")
        /\ Invocations(builddir[a], "spawn_installer") = 1

Populating(a) == pc[a] \in {"pipenv_builddir", "resolver", "installer"}

\* C2: no build is bundling (reading its build directory in _build_zip)
\* while the resolver or installer of some build is still populating that
\* directory.
C2_NoBundlingDuringPopulation ==
    \A a, b \in Builds :
        (pc[b] = "zip" /\ Populating(a)) => builddir[a] # ziproot[b]

\* C3: a warmup that begins after another warmup for the same lock bytes has
\* returned uses the same build directory and spawns neither the resolver nor
\* the installer; when the first call was the one that created the directory,
\* each tool has run exactly once over the two calls.
C3_Idempotent ==
    \A a, b \in Builds :
        (/\ a \in prior[b]
         /\ builddir[b] # ""
         /\ lockfile[sourcedir[a]] = lockfile[sourcedir[b]]) =>
            /\ builddir[b] = builddir[a]
            /\ ~Logged(b, "mkdir")
            /\ ~Logged(b, "spawn_resolver")
            /\ ~Logged(b, "spawn_installer")
            /\ (Logged(a, "mkdir") /\ Logged(b, "warmup_returned")) =>
                  /\ Invocations(builddir[a], "spawn_resolver") = 1
                  /\ Invocations(builddir[a], "spawn_installer") = 1

\* A second warmup, begun after the first (which populated the directory) had
\* returned, has itself returned.
C3_Witness ==
    \E a, b \in Builds :
        /\ a \in prior[b]
        /\ builddir[b] = builddir[a]
        /\ Logged(a, "spawn_installer")
        /\ Logged(b, "warmup_returned")

InstallerFailed(b) == Len(exitcode[b]) = 2 /\ exitcode[b][2] # 0

\* C4: a build whose installer exited nonzero has failed with the process
\* error; it never started the accessor generator or the bundler and returned
\* no archive path.
C4_FailurePropagation ==
    \A b \in Builds :
        InstallerFailed(b) =>
            /\ pc[b] = "failed"
            /\ err[b] = "SubprocessError"
            /\ ~Logged(b, "warmup_returned")
            /\ ~Logged(b, "resgen_started")
            /\ ~Logged(b, "zip_opened")
            /\ result[b] = ""
            /\ \A z \in ZipPaths : b \notin zipWriters[z]

C4_Witness ==
    \E b \in Builds : InstallerFailed(b) /\ exitcode[b][1] = 0

StepOrder == <<"warmup_returned", "resgen_started", "resgen_returned",
               "zip_opened", "zip_closed", "returned">>

IsStep(e) == \E i \in DOMAIN StepOrder : StepOrder[i] = e

IsPrefix(s, t) == Len(s) <= Len(t) /\ SubSeq(t, 1, Len(s)) = s

\* C5: in every build the steps happen in the order warmup returned, accessor
\* generator started and returned, bundler opened and closed the archive,
\* path returned; a returned path names an archive this build's bundler has
\* finished writing.
C5_StepOrder ==
    \A b \in Builds :
        /\ IsPrefix(SelectSeq(log[b], IsStep), StepOrder)
        /\ result[b] # "" <=> Logged(b, "returned")
        /\ result[b] # "" =>
              /\ result[b] = bdest[b]
              /\ Logged(b, "zip_closed")
              /\ b \notin zipWriters[result[b]]
              /\ zipFiles[result[b]] # <<>>

C5_Witness ==
    \E b \in Builds :
        /\ result[b] # ""
        /\ Len(contents[b]) = 1
        /\ Logged(b, "spawn_installer")

\* C7: a build whose source root has no Pipfile fails with the unsupported
\* package type error having done nothing else: no build directory computed
\* or created, no lock file read, no subprocess spawned, no archive opened.
C7_UnsupportedPackage ==
    \A b \in Builds :
        (pc[b] # "idle" /\ ~HasPipfile(sourcedir[b])) =>
            /\ pc[b] = "failed"
            /\ err[b] = "OSError"
            /\ log[b] = <<>>
            /\ builddir[b] = "" /\ ziproot[b] = "" /\ bdest[b] = ""
            /\ exitcode[b] = <<>>
            /\ result[b] = ""
            /\ \A z \in ZipPaths : b \notin zipWriters[z]

C7_Witness ==
    \E b \in Builds : err[b] = "OSError" /\ dirs = {}

HasUnknownType(b) ==
    \E i \in DOMAIN resources[b] : get_fqn(resources[b][i].res) \notin DOMAIN BUILDERS

\* C13: a build one of whose resources has a type without an entry in
\* BUILDERS never gets source from the accessor generator, never opens an
\* archive and returns no path; when its generator has ended, it has ended
\* the build with the failed registry lookup.
C13_UnknownResourceType ==
    \A b \in Builds :
        HasUnknownType(b) =>
            /\ ~Logged(b, "resgen_returned")
            /\ ~Logged(b, "zip_opened")
            /\ result[b] = ""
            /\ \A z \in ZipPaths : b \notin zipWriters[z]
            /\ pc[b] \notin {"zip", "done"}
            /\ (Logged(b, "resgen_started") /\ pc[b] # "resgen") =>
                  pc[b] = "failed" /\ err[b] = "KeyError"

\* A generator failed on its second resource after emitting the record of
\* its first, and no archive exists at the build's destination.
C13_Witness ==
    \E b \in Builds :
        /\ err[b] = "KeyError"
        /\ Len(contents[b]) = 1
        /\ zipFiles[bdest[b]] = <<>>

\* The attribute values of resource handle h as the provisioning layer
\* resolved them, in the order BUILDERS declares the attributes.
ResolvedValues(h) ==
    [i \in DOMAIN BUILDERS[get_fqn(h)].attrs |->
        AttrValue(h, BUILDERS[get_fqn(h)].attrs[i])]

\* C14: the accessor generator has returned (and the bundler has started)
\* only when the attributes of every bound resource have resolved; it emits
\* the record of a resource only once that resource's attributes have
\* resolved, so it stays on a resource whose attributes are pending; the
\* k-th record carries the k-th logical name and exactly the resolved values
\* of its resource, in the declared order of the attributes.
C14_WaitsForProvisioning ==
    \A b \in Builds :
        /\ Logged(b, "zip_opened") => Logged(b, "resgen_returned")
        /\ Logged(b, "resgen_returned") =>
              /\ Len(contents[b]) = Len(resources[b])
              /\ \A i \in DOMAIN resources[b] : resources[b][i].res \in resolved
        /\ Len(contents[b]) <= Len(resources[b])
        /\ \A k \in DOMAIN contents[b] :
              /\ resources[b][k].res \in resolved
              /\ contents[b][k].name = resources[b][k].name
              /\ contents[b][k].args = BUILDERS[get_fqn(resources[b][k].res)].attrs
              /\ contents[b][k].values = ResolvedValues(resources[b][k].res)
        /\ (pc[b] = "resgen" /\ ri[b] <= Len(resources[b])
              /\ resources[b][ri[b]].res \notin resolved) =>
                 Len(contents[b]) = ri[b] - 1

\* A bundler runs with the source of a generator that had to wait for a
\* bucket's name.
C14_Witness ==
    \E b \in Builds :
        /\ pc[b] = "zip"
        /\ Len(contents[b]) = 1
        /\ contents[b][1].values = <<"assets-bucket-id">>

\* C15: the build directory of a warmup that failed in the resolver or the
\* installer stays in place, not completely populated; a build begun after
\* that failure on the same lock bytes computes the same directory, creates
\* nothing, spawns neither tool, leaves warmup without an error and hands
\* that directory to the bundler.
C15_PartialCachePersists ==
    /\ \A a \in Builds :
          WarmupFailed(a) =>
              /\ builddir[a] \in dirs
              /\ populated[builddir[a]] \in {"empty", "partial"}
    /\ \A a, b \in Builds :
          (/\ a \in priorFailed[b]
           /\ builddir[b] # ""
           /\ lockfile[sourcedir[a]] = lockfile[sourcedir[b]]) =>
              /\ builddir[b] = builddir[a]
              /\ ~Logged(b, "mkdir")
              /\ ~Logged(b, "spawn_resolver")
              /\ ~Logged(b, "spawn_installer")
              /\ exitcode[b] = <<>>
              /\ err[b] # "SubprocessError"
              /\ pc[b] # "warmup_exists" => Logged(b, "warmup_returned")
              /\ Logged(b, "zip_opened") => ziproot[b] = builddir[a]

\* A build begun after an installer had failed returned an archive made from
\* the directory that installer left partially populated.
C15_Witness ==
    \E a, b \in Builds :
        /\ a \in priorFailed[b]
        /\ result[b] # ""
        /\ ziproot[b] = builddir[a]
        /\ populated[builddir[a]] = "partial"

MaterializationOrder == <<"mkdir", "spawn_resolver", "spawn_installer">>

IsMaterializationStep(e) ==
    \E i \in DOMAIN MaterializationOrder : MaterializationOrder[i] = e

ResolverFailed(b) == Len(exitcode[b]) >= 1 /\ exitcode[b][1] # 0

\* C16: a warmup creates the build directory, then spawns the resolver, then
\* the installer, in that order and each at most once; the installer is
\* spawned only after the resolver exited 0, with the directory this warmup
\* created as its target and the resolver's stdout as its requirement list;
\* after a failed resolver there is no installer.
C16_MaterializationOrder ==
    \A b \in Builds :
        /\ IsPrefix(SelectSeq(log[b], IsMaterializationStep), MaterializationOrder)
        /\ Logged(b, "spawn_resolver") => builddir[b] \in dirs
        /\ Logged(b, "spawn_installer") <=> installArgs[b] # <<>>
        /\ Logged(b, "spawn_installer") =>
              /\ Len(exitcode[b]) >= 1 /\ exitcode[b][1] = 0
              /\ out[b] # ""
              /\ installArgs[b] = <<"--target", builddir[b], "-r", out[b]>>
        /\ ResolverFailed(b) =>
              /\ ~Logged(b, "spawn_installer")
              /\ pc[b] = "failed"
              /\ populated[builddir[b]] = "empty"

\* One warmup ran both tools; the resolver of another warmup failed.
C16_Witness ==
    \E a, b \in Builds :
        /\ Len(exitcode[a]) = 2
        /\ installArgs[a][4] = "reqs-of-lockA"
        /\ ResolverFailed(b)

Started(b) == pc[b] # "idle"

Finished(b) ==
    \/ pc[b] = "done" /\ result[b] # ""
    \/ pc[b] = "failed" /\ err[b] # ""

PendingHandle(b) ==
    {h \in Handles : Awaiting(b, h) /\ h \notin resolved}

\* Task b awaits a child process, the thread that writes its archive, or an
\* attribute of a resource.
Suspended(b) ==
    \/ pc[b] \in {"resolver", "installer", "zip"}
    \/ PendingHandle(b) # {}

CacheKey(b) == Sha3Hex(lockfile[sourcedir[b]])

\* Task b, or the event it awaits, can take its next step.
CanProceed(b) ==
    \/ ENABLED (TaskStep(b) /\ Untouched)
    \/ \E h \in PendingHandle(b) : ENABLED (Provision(h) /\ Untouched)

NotBlocked ==
    \A a, b \in Builds :
        (/\ a # b
         /\ Suspended(a)
         /\ Started(b) /\ ~Finished(b)
         /\ HasPipfile(sourcedir[a]) /\ HasPipfile(sourcedir[b])
         /\ CacheKey(a) # CacheKey(b)) => CanProceed(b)

\* C17: while a build is suspended, an unfinished build with a different
\* cache key can always proceed; when the event loop is fair, every child
\* process exits and every awaited attribute resolves, every started build
\* eventually returns an archive path or fails with an error.
C17_Progress ==
    /\ []NotBlocked
    /\ \A b \in Builds : Started(b) ~> Finished(b)

\* The second build returned its archive while the first, on another cache
\* key, still awaits its resolver.
C17_Witness ==
    \E a, b \in Builds :
        /\ a < b
        /\ pc[a] = "resolver"
        /\ pc[b] = "done"
        /\ builddir[a] # builddir[b]
        /\ Logged(b, "spawn_installer")

\* What the bundler of build b writes: its two source trees and the
\* accessor module generated from its resources.
OwnArchive(b) ==
    <<[sources |-> <<ziproot[b], sourcedir[b]>>, virtuals |-> contents[b]]>>

\* C18: no archive path is open for writing by two bundlers at once, and the
\* archive at the path a build returned holds that build's source tree and
\* accessor module.
C18_ArchiveOwnership ==
    /\ \A z \in ZipPaths : Cardinality(zipWriters[z]) <= 1
    /\ \A b \in Builds :
          result[b] # "" => zipFiles[result[b]] = OwnArchive(b)

\* C19: the directory the bundler of a build reads, and from which the
\* returned archive path is derived, is the build directory its warmup
\* computed and found or created, whatever happens to the lock file between
\* the two.
C19_SingleCacheKey ==
    \A b \in Builds :
        /\ ziproot[b] # "" =>
              /\ ziproot[b] = builddir[b]
              /\ ziproot[b] \in dirs
              /\ bdest[b] = builddir[b] \o ".zip"
        /\ result[b] # "" => result[b] = builddir[b] \o ".zip"

-----------------------------------------------------------------------------
(* Properties of SpecBundle and SpecFilter                                 *)

\* C6: two runs of the bundler over the same source trees, virtual files and
\* filter write identical archives whose entries all carry the epoch
\* timestamp, whatever the modification times on disk.
C6_Deterministic ==
    (RunDone(1) /\ RunDone(2)) =>
        /\ zarchive[1] = zarchive[2]
        /\ \A r \in Runs : \A i \in DOMAIN zarchive[r] :
              zarchive[r][i].date_time = ZipEpoch

NameData(e) == <<e.filename, e.data>>

\* The children of the source trees that the filter lets through, each with
\* the index of its tree.
Included ==
    {ic \in UNION {{<<i, c>> : c \in ztrees[i].children} : i \in DOMAIN ztrees} :
        Passes(zfilter, RelativeTo(ic[2].path, ztrees[ic[1]].root))}

IncludedFiles == {ic \in Included : ~ic[2].is_dir}

\* filename and data under which a child of tree i is expected in the archive
Expected(ic) ==
    LET rel == RelativeTo(ic[2].path, ztrees[ic[1]].root)
    IN IF ic[2].is_dir THEN <<AsPosix(rel) \o "/", "">>
                       ELSE <<AsPosix(rel), ic[2].data>>

\* The archive is: one entry per member of wanted, in some order, then one
\* entry per virtual file, in order, each with the virtual file's name and
\* data.
ArchiveIs(archive, wanted) ==
    LET nv == Len(zvirtuals)
        nd == Len(archive) - nv
    IN /\ nd = Cardinality(wanted)
       /\ \A i \in 1..nd :
             Cardinality({j \in 1..nd : NameData(archive[j]) = NameData(archive[i])})
               = Cardinality({ic \in wanted : Expected(ic) = NameData(archive[i])})
       /\ \A k \in 1..nv :
             NameData(archive[nd + k]) = <<zvirtuals[k].name, zvirtuals[k].data>>

\* C8 as stated: the archive holds one entry per file of a source tree whose
\* relative path passes the filter, then one entry per virtual file, and
\* nothing else.
C8_FilesAndVirtualsOnly ==
    \A r \in Runs : RunDone(r) => ArchiveIs(zarchive[r], IncludedFiles)

\* C8 amended: the archive holds one entry per file or directory of a source
\* tree whose relative path passes the filter (a file under its forward-slash
\* relative path, a directory as an empty entry under that path followed by
\* '/'), then one entry per virtual file under its given name, unfiltered, and
\* nothing else.
C8_EntrySet ==
    \A r \in Runs : RunDone(r) => ArchiveIs(zarchive[r], Included)

\* A run under the default filter whose archive holds a directory entry and a
\* file of it, left out a filtered file, and ends with a virtual file whose
\* name the filter would reject.
C8_Witness ==
    \E r \in Runs :
        /\ RunDone(r)
        /\ zfilter = "default"
        /\ Len(zarchive[r]) = 4
        /\ zarchive[r][1].filename = "app/"
        /\ zarchive[r][2].filename = "app/handler.py"
        /\ zarchive[r][4].filename = "boto3/shim.py"
        /\ Cardinality(ztrees[1].children) = 2

Excluded(name) ==
    EndsWith(name, DistInfoSuffix) \/ NameStr(name) \in RuntimeProvided

\* C9 as stated: the filter rejects exactly the paths that lie under a
\* top-level directory whose name ends in '.dist-info' or is 'boto3' or
\* 'botocore'.
C9_UnderTopLevelDirectory ==
    \A i \in DOMAIN zdecisions :
        zdecisions[i].accept =
            ~(Len(zdecisions[i].path) >= 2 /\ Excluded(zdecisions[i].path[1]))

\* C9 amended: the filter rejects exactly the paths whose first component (the
\* top-level directory the path lies under, or the path itself when it names a
\* top-level entry) has a name that ends in '.dist-info' or is 'boto3' or
\* 'botocore'; the decision depends only on the path.
C9_FirstComponent ==
    \A i \in DOMAIN zdecisions :
        zdecisions[i].accept = ~Excluded(zdecisions[i].path[1])

\* The filter was asked about 'app/boto3/handler.py' and accepted it.
C9_Witness ==
    /\ zdecisions # <<>>
    /\ AsPosix(zdecisions[1].path) = "app/boto3/handler.py"
    /\ zdecisions[1].accept

-----------------------------------------------------------------------------
(* Properties of SpecAccessor                                              *)

\* C10: a lookup of a name that is not a key of _resources fails with the
\* 'not a defined resource' error; the thunk of a registered name is run at
\* most once, and every lookup of that name returns the object its first run
\* built.
C10_MemoizedForLife ==
    /\ (lastLookup.outcome # "none" /\ lastLookup.name \notin Registered) =>
          lastLookup.outcome = "AttributeError"
    /\ \A n \in Registered : Len(thunkRuns[n]) <= 1
    /\ (lastLookup.outcome # "none" /\ lastLookup.name \in Registered) =>
          /\ lastLookup.outcome = "returned"
          /\ lastLookup.obj = thunkRuns[lastLookup.name][1]

-----------------------------------------------------------------------------
(* Properties of SpecBucket                                                *)

BucketsOf(region) ==
    {i \in DOMAIN bucketsDeclared : bucketsDeclared[i].region = region}

\* C11: after any sequence of set-ups at most one bucket has been declared
\* per region, every get_lambda_bucket call returned a bucket of its region,
\* and two calls for the same region returned the same bucket.
C11_CreateOnce ==
    /\ \A i \in DOMAIN Regions : Cardinality(BucketsOf(Regions[i])) <= 1
    /\ \A i \in DOMAIN setups :
          /\ setups[i].bucket \in BucketsOf(setups[i].region)
          /\ \A j \in DOMAIN setups :
                setups[j].region = setups[i].region =>
                    setups[j].bucket = setups[i].bucket

\* Two packages of one region and a package of another region were set up.
C11_Witness ==
    \E i, j, k \in DOMAIN setups :
        /\ i # j
        /\ setups[i].region = setups[j].region
        /\ setups[k].region # setups[i].region
        /\ Len(bucketsDeclared) = 2

-----------------------------------------------------------------------------
(* Properties of SpecRunner                                                *)

ChildrenOf(c) == {p \in DOMAIN procs : procs[p].call = c}

Carries(outcome, x) == \E i \in DOMAIN outcome.args : outcome.args[i] = x

\* C12: every run spawns exactly one child; a finished run with check set
\* whose child exited nonzero has failed with the process error, which
\* carries the exit status and leaves the captured stdout and stderr
\* available; every other finished run has returned the pair communicate()
\* yielded.
C12_RunnerOutcome ==
    \A c \in DOMAIN calls :
        /\ Cardinality(ChildrenOf(c)) = 1
        /\ calls[c].pc = "done" =>
              LET child == procs[calls[c].proc]
                  outcome == calls[c].outcome
              IN IF calls[c].check /\ child.returncode # 0
                   THEN /\ outcome.kind = "raise"
                        /\ outcome.exc = "SubprocessError"
                        /\ Carries(outcome, child.returncode)
                        /\ Carries(outcome, child.stdout)
                        /\ Carries(outcome, child.stderr)
                   ELSE /\ outcome.kind = "return"
                        /\ outcome.value = Communicated(calls[c].command, child)

-----------------------------------------------------------------------------
(* Properties of SpecEnv                                                   *)

\* C20: whatever os.environ holds, the environment handed to the resolver
\* has PIPENV_PIPFILE equal to the package's Pipfile and PIPENV_VIRTUALENV
\* equal to the package's build directory.
C20_ResolverEnvironment ==
    \A i \in DOMAIN pipenvCalls :
        /\ {"PIPENV_PIPFILE", "PIPENV_VIRTUALENV"} \subseteq DOMAIN pipenvCalls[i].env
        /\ pipenvCalls[i].env["PIPENV_PIPFILE"] = Pipfile(pipenvCalls[i].root)
        /\ pipenvCalls[i].env["PIPENV_VIRTUALENV"] = get_builddir(pipenvCalls[i].root)

-----------------------------------------------------------------------------
====
